---- MODULE Spec2Model ----
(***************************************************************************)
(* voter_model (src/code/voter_model.py): one call of the function, from   *)
(* the arguments the caller passes to the tuple it returns or the          *)
(* exception it raises.  One loop iteration is one action.                 *)
(*                                                                         *)
(* numpy arrays are functions over 0..n-1, so that indices are the         *)
(* source's.  Arrays that the caller can still see after the call live in  *)
(* heap, and the names IC, opinions and opinion_counts hold references     *)
(* into it, as Python names do.                                            *)
(***************************************************************************)
EXTENDS Integers, Sequences, FiniteSets, TLC

\* Bounds of the arguments a call is checked with.
MaxS == 2
MaxJ == 2
MaxN == 3

\* Bound of total_time = T * J, the number of iterations of a run.
MaxTotal == 4

\* nu and the draws of rng.random() are multiples of 1/NuDen.
NuDen == 2

\* theta is a multiple of 1/ThetaDen, from -1 to 2.
ThetaDen == 4

\* Bound of max_integer.
MaxInteger == 4

VARIABLES
  S, J, T, nu, num_log_steps, num_log_steps_count,   \* arguments
  IC, opinion_counts,                                \* arguments, rebound by the body
  heap,                                              \* the arrays behind the references
  total_time, opinions, log_steps, log_steps_count,
  richness, opinion_counts_store, time, time_c,
  k, k_c, t,
  pc,                                                \* "call", "loop", "done", "error"
  ret,                                               \* the returned tuple
  wrote, wrote_c,                                    \* history: slots assigned so far
  theta, max_integer,                                \* arguments of logseries_distribution
  dist                                               \* what logseries_distribution gave

\* the call of logseries_distribution
logseries == << theta, max_integer, dist >>

vars == << theta, max_integer, dist, S, J, T, nu, num_log_steps, num_log_steps_count, IC, opinion_counts,
           heap, total_time, opinions, log_steps, log_steps_count,
           richness, opinion_counts_store, time, time_c, k, k_c, t, pc, ret,
           wrote, wrote_c >>

args == << S, J, T, nu, num_log_steps, num_log_steps_count >>

----------------------------------------------------------------------------
\* Arrays

ArrLen(a) == Cardinality(DOMAIN a)

Empty == [x \in {} |-> 0]

\* np.zeros(n, dtype=int)
Zeros(n) == [x \in 0..(n - 1) |-> 0]

\* a[:n]
Prefix(a, n) == [x \in 0..((IF n < ArrLen(a) THEN n ELSE ArrLen(a)) - 1) |-> a[x]]

\* a[-1]
Last(a) == a[ArrLen(a) - 1]

\* a[:-1]
DropLast(a) == Prefix(a, ArrLen(a) - 1)

RECURSIVE Pow(_, _)
Pow(b, e) == IF e = 0 THEN 1 ELSE b * Pow(b, e - 1)

RECURSIVE GCD(_, _)
GCD(a, b) == IF b = 0 THEN a ELSE GCD(b, a % b)

\* A float that is a ratio of two integers, in lowest terms.
Ratio(n, d) == << n \div GCD(n, d), d \div GCD(n, d) >>

\* 0.0, also what np.zeros(n) holds
Zero == << 0, 1 >>

FloatZeros(n) == [x \in 0..(n - 1) |-> Zero]

----------------------------------------------------------------------------
\* The logarithmic schedule

\* np.round(np.logspace(np.log10(a), np.log10(b), n))[i].  For n = 1 logspace
\* returns its start.  For n > 1 the point is y = a * (b/a)^(i/(n-1)), so
\* y^(n-1) = a^(n-1-i) * b^i, and m is the integer nearest to y iff
\* (2m-1)^(n-1) <= (2y)^(n-1) < (2m+1)^(n-1); y is never half-way between two
\* integers (the left side would be odd, the right one even).
LogspacePoint(a, b, n, i) ==
  IF n = 1 THEN a
  ELSE CHOOSE m \in a..b :
         /\ Pow(2 * m - 1, n - 1) <= Pow(2, n - 1) * Pow(a, n - 1 - i) * Pow(b, i)
         /\ Pow(2, n - 1) * Pow(a, n - 1 - i) * Pow(b, i) < Pow(2 * m + 1, n - 1)

\* np.unique: the distinct values, ascending
RECURSIVE NpUnique(_)
NpUnique(vals) ==
  IF vals = {} THEN << >>
  ELSE LET m == CHOOSE x \in vals : \A y \in vals : x <= y
       IN << m >> \o NpUnique(vals \ {m})

AsArray(seq) == [x \in 0..(Len(seq) - 1) |-> seq[x + 1]]

\* (the rounded points as np.logspace orders them, np.unique left out)
LogScheduleRaw(a, b, n) == [i \in 0..(n - 1) |-> LogspacePoint(a, b, n, i)]

LogSchedule(a, b, n) ==
  AsArray(NpUnique({ LogspacePoint(a, b, n, i) : i \in 0..(n - 1) }))

----------------------------------------------------------------------------
\* Tallies

Labels(pop) == { pop[x] : x \in DOMAIN pop }

\* len(np.unique(opinions))
Distinct(pop) == Cardinality(Labels(pop))

\* lines 60-62: a zero vector of length s, incremented once per individual
InitialTally(pop, s) ==
  [o \in 0..(s - 1) |-> Cardinality({ x \in DOMAIN pop : pop[x] = o })]

\* (a tally that stores 1 for every label present)
TallyPresence(pop, s) ==
  [o \in 0..(s - 1) |-> IF \E x \in DOMAIN pop : pop[x] = o THEN 1 ELSE 0]

\* lines 104-107: a zero vector of length s with count[key] set to the number
\* of holders Counter(opinions) found for key
Tally(pop, s) == [o \in 0..(s - 1) |-> Cardinality({ x \in DOMAIN pop : pop[x] = o })]

\* every label indexes a vector of length s without an IndexError
LabelsIndexable(pop, s) == \A x \in DOMAIN pop : pop[x] \in 0..(s - 1)

\* np.sum(opinion_counts > 0)
Positive(counts) == Cardinality({ o \in DOMAIN counts : counts[o] > 0 })

----------------------------------------------------------------------------
\* References

\* np.array(IC): a new array holding IC's values
ICArray(src) == "IC"

\* IC.copy(): a new array
OpinionsCopy(src) == "opinions"

\* (a re-tally written into the array the name is bound to)
NewCountsInPlace(cur) == cur

\* opinion_counts = np.zeros(S, dtype=int) binds the name to a new array
NewCounts(cur) == "counts"

Objects == { "argIC", "argCounts", "IC", "opinions", "counts" }

----------------------------------------------------------------------------
\* The call

NuValues == 0..NuDen

\* rng.random() is in [0, 1)
UValues == 0..(NuDen - 1)

\* count vectors of length s that sum to j
RECURSIVE Sum(_, _)
Sum(f, n) == IF n = 0 THEN 0 ELSE f[n - 1] + Sum(f, n - 1)

CountVectors(s, j) == { c \in [0..(s - 1) -> 0..j] : Sum(c, s) = j }

\* What is the same in every call: nothing is bound or allocated yet.
Entry ==
  /\ total_time = 0
  /\ opinions = "None"
  /\ log_steps = Empty
  /\ log_steps_count = Empty
  /\ richness = Empty
  /\ opinion_counts_store = Empty
  /\ time = Empty
  /\ time_c = Empty
  /\ k = 0
  /\ k_c = 0
  /\ t = 0
  /\ pc = "call"
  /\ ret = [kind |-> "none", store |-> Empty, richness |-> Empty,
            time |-> Empty, time_c |-> Empty]
  /\ wrote = {}
  /\ wrote_c = {}

\* the counts a caller precomputes from the initial condition it passes
CallerCounts(a, s) == [o \in 0..(s - 1) |-> Cardinality({ x \in DOMAIN a : a[x] = o })]

Heap(argIC, argCounts) ==
  [o \in Objects |-> IF o = "argIC" THEN argIC
                     ELSE IF o = "argCounts" THEN argCounts ELSE Empty]

\* logseries_distribution has not been called
NoDist == [kind |-> "none", pmf |-> Empty]

NoLogseries ==
  /\ theta = 0
  /\ max_integer = 0
  /\ dist = NoDist

\* Calls that respect the documented parameters: S, J, T >= 1, nu in [0, 1],
\* IC None or J labels in [0, S), opinion_counts None or the counts the caller
\* precomputed from the IC it passes.
Init ==
  /\ S \in 1..MaxS
  /\ J \in 1..MaxJ
  /\ T \in { x \in 1..MaxTotal : x * J <= MaxTotal }
  /\ nu \in NuValues
  /\ num_log_steps \in 1..MaxN
  /\ num_log_steps_count \in 1..MaxN
  /\ IC \in { "None", "argIC" }
  /\ opinion_counts \in IF IC = "None" THEN { "None" } ELSE { "None", "argCounts" }
  /\ \E a \in [0..(J - 1) -> 0..(S - 1)] :
       heap = Heap(IF IC = "None" THEN Empty ELSE a,
                   IF opinion_counts = "None" THEN Empty ELSE CallerCounts(a, S))
  /\ Entry
  /\ NoLogseries

\* Calls the signature admits, documented or not: also nu below 0 or above 1,
\* an IC one shorter or longer than J, an IC holding the label S, and
\* opinion_counts passed with IC=None (any S counts that sum to J: the
\* population is drawn after the caller chose them).
InitAny ==
  /\ S \in 1..MaxS
  /\ J \in 1..MaxJ
  /\ T \in { x \in 1..MaxTotal : x * J <= MaxTotal }
  /\ nu \in (0 - 1)..(NuDen + 1)
  /\ num_log_steps \in 1..MaxN
  /\ num_log_steps_count \in 1..MaxN
  /\ IC \in { "None", "argIC" }
  /\ opinion_counts \in { "None", "argCounts" }
  /\ \E n \in (J - 1)..(J + 1) : \E a \in [0..(n - 1) -> 0..S], c \in CountVectors(S, J) :
       heap = Heap(IF IC = "None" THEN Empty ELSE a,
                   IF opinion_counts = "None" THEN Empty
                   ELSE IF IC = "None" THEN c ELSE CallerCounts(a, S))
  /\ Entry
  /\ NoLogseries

\* Lines 44-80.  An IndexError at line 62 ends the call before the loop.
Setup ==
  /\ pc = "call"
  /\ UNCHANGED logseries
  /\ \E drawn \in [0..(J - 1) -> 0..(S - 1)] :
       LET ic == IF IC = "None" THEN "IC" ELSE ICArray(IC)
           icv == IF IC = "None" THEN drawn ELSE heap[IC]
           op == OpinionsCopy(ic)
           h1 == [[heap EXCEPT !["IC"] = icv] EXCEPT !["opinions"] = icv]
           pop == h1[op]
           oc == IF opinion_counts = "None" THEN "counts" ELSE opinion_counts
           h2 == IF opinion_counts = "None"
                 THEN [h1 EXCEPT !["counts"] = InitialTally(pop, S)]
                 ELSE h1
           ls == LogSchedule(J, T * J, num_log_steps)
           lc == LogSchedule(J, T * J, num_log_steps_count)
       IN IF opinion_counts = "None" /\ ~LabelsIndexable(pop, S)
          THEN /\ pc' = "error"
               /\ UNCHANGED << args, IC, opinion_counts, heap, total_time, opinions,
                               log_steps, log_steps_count, richness,
                               opinion_counts_store, time, time_c, k, k_c, t, ret,
                               wrote, wrote_c >>
          ELSE /\ total_time' = T * J
               /\ IC' = ic
               /\ opinions' = op
               /\ opinion_counts' = oc
               /\ heap' = h2
               /\ log_steps' = ls
               /\ log_steps_count' = lc
               /\ richness' = [Zeros(ArrLen(ls) + 1) EXCEPT ![0] = Positive(h2[oc])]
               /\ opinion_counts_store' =
                    [c \in 0..ArrLen(lc) |-> IF c = 0 THEN h2[oc] ELSE Zeros(S)]
               /\ time' = FloatZeros(ArrLen(ls) + 1)
               /\ time_c' = FloatZeros(ArrLen(lc) + 1)
               /\ k' = 1
               /\ k_c' = 1
               /\ t' = 0
               /\ pc' = "loop"
               /\ wrote' = {0}
               /\ wrote_c' = {0}
               /\ UNCHANGED << args, ret >>

----------------------------------------------------------------------------
\* One iteration of the loop

\* (the comparison made strict)
CopiesStrict(u, nuv) == u > nuv

\* line 87: rng.random() >= nu
Copies(u, nuv) == u >= nuv

\* The draws of rng.random() that matter: one for each outcome of line 87.
Draws(nuv) ==
  { CHOOSE u \in UValues : Copies(u, nuv) = b : b \in { Copies(u, nuv) : u \in UValues } }

\* lines 88 and 91 raise IndexError unless the indices they use exist
UpdateInBounds(pop, i, u, j, nuv) ==
  /\ i \in DOMAIN pop
  /\ Copies(u, nuv) => j \in DOMAIN pop

\* (a speciation label drawn from 1..S instead of 0..S-1)
UpdateShifted(pop, i, u, j, s, nuv) ==
  [pop EXCEPT ![i] = IF Copies(u, nuv) THEN pop[j] ELSE s + 1]

\* lines 84-91: the focal individual i copies peer j, or adopts the drawn label s
Update(pop, i, u, j, s, nuv) ==
  [pop EXCEPT ![i] = IF Copies(u, nuv) THEN pop[j] ELSE s]

\* line 94
RichnessDue(kk, steps, tt) == kk < ArrLen(steps) /\ tt = steps[kk - 1]

\* (a stop on consensus that does not look at nu)
ConsensusStopAnyNu(nuv, r) == r = 1

\* line 98
ConsensusStop(nuv, r) == nuv = 0 /\ r = 1

\* line 103
CountsDue(kc, steps, tt) == kc < ArrLen(steps) /\ tt = steps[kc - 1]

\* (a drop that does not look at the last slot)
DropDueAlways(kk, steps, rich) == kk = ArrLen(steps)

\* line 113
DropDue(kk, steps, rich) == kk = ArrLen(steps) /\ Last(rich) = 0

\* line 99
EarlyReturn(store, rich, tm, tmc, kk, kc) ==
  [kind |-> "early", store |-> store, richness |-> Prefix(rich, kk + 1),
   time |-> Prefix(tm, kk + 1), time_c |-> Prefix(tmc, kc)]

\* line 117
FullReturn(store, rich, tm, tmc) ==
  [kind |-> "full", store |-> store, richness |-> rich, time |-> tm, time_c |-> tmc]

\* An exception leaves the function at iteration tt; its locals are gone.
Raise(tt) ==
  /\ pc' = "error"
  /\ t' = tt
  /\ UNCHANGED << args, IC, opinion_counts, heap, total_time, opinions, log_steps,
                  log_steps_count, richness, opinion_counts_store, time, time_c,
                  k, k_c, ret, wrote, wrote_c >>

\* lines 84-115 for t = tt, with the draws i and u, and j or s
Iteration(i, u, j, s) ==
       LET tt == t + 1
           pop == heap[opinions]
       IN IF ~UpdateInBounds(pop, i, u, j, nu) THEN Raise(tt)
          ELSE
          LET pop1 == Update(pop, i, u, j, s, nu)
              h1 == [heap EXCEPT ![opinions] = pop1]
              due == RichnessDue(k, log_steps, tt)
              r == Distinct(pop1)
              rich1 == IF due THEN [richness EXCEPT ![k] = r] ELSE richness
              time1 == IF due THEN [time EXCEPT ![k] = Ratio(tt, J)] ELSE time
              wrote1 == IF due THEN wrote \cup {k} ELSE wrote
          IN IF due /\ ConsensusStop(nu, r)
             THEN /\ ret' = EarlyReturn(opinion_counts_store, rich1, time1, time_c, k, k_c)
                  /\ pc' = "done"
                  /\ t' = tt
                  /\ heap' = h1
                  /\ richness' = rich1
                  /\ time' = time1
                  /\ wrote' = wrote1
                  /\ UNCHANGED << args, IC, opinion_counts, total_time, opinions,
                                  log_steps, log_steps_count, opinion_counts_store,
                                  time_c, k, k_c, wrote_c >>
             ELSE
             LET k1 == IF due THEN k + 1 ELSE k
                 cdue == CountsDue(k_c, log_steps_count, tt)
                 oc == IF cdue THEN NewCounts(opinion_counts) ELSE opinion_counts
                 h2 == IF cdue THEN [h1 EXCEPT ![oc] = Tally(pop1, S)] ELSE h1
             IN IF cdue /\ ~LabelsIndexable(pop1, S) THEN Raise(tt)
                ELSE IF k1 = ArrLen(log_steps) /\ ArrLen(rich1) = 0 THEN Raise(tt)
                ELSE /\ t' = tt
                     /\ heap' = h2
                     /\ opinion_counts' = oc
                     /\ k' = k1
                     /\ opinion_counts_store' =
                          IF cdue THEN [opinion_counts_store EXCEPT ![k_c] = h2[oc]]
                          ELSE opinion_counts_store
                     /\ time_c' = IF cdue THEN [time_c EXCEPT ![k_c] = Ratio(tt, J)]
                                  ELSE time_c
                     /\ k_c' = IF cdue THEN k_c + 1 ELSE k_c
                     /\ wrote_c' = IF cdue THEN wrote_c \cup {k_c} ELSE wrote_c
                     /\ richness' = IF DropDue(k1, log_steps, rich1)
                                    THEN DropLast(rich1) ELSE rich1
                     /\ time' = IF DropDue(k1, log_steps, rich1)
                                THEN DropLast(time1) ELSE time1
                     /\ wrote' = wrote1
                     /\ pc' = "loop"
                     /\ UNCHANGED << args, IC, total_time, opinions, log_steps,
                                     log_steps_count, ret >>

\* line 82: one more iteration while t < total_time.  Line 88 draws the peer j
\* only when the focal individual copies, line 91 the label s only when not.
Step ==
  /\ pc = "loop"
  /\ t < total_time
  /\ UNCHANGED logseries
  /\ \E i \in 0..(J - 1), u \in Draws(nu) :
       IF Copies(u, nu)
       THEN \E j \in 0..(J - 1) : Iteration(i, u, j, 0)
       ELSE \E s \in 0..(S - 1) : Iteration(i, u, 0, s)

\* line 117, once the loop has run total_time iterations
Return ==
  /\ pc = "loop"
  /\ t = total_time
  /\ UNCHANGED logseries
  /\ ret' = FullReturn(opinion_counts_store, richness, time, time_c)
  /\ pc' = "done"
  /\ UNCHANGED << args, IC, opinion_counts, heap, total_time, opinions, log_steps,
                  log_steps_count, richness, opinion_counts_store, time, time_c,
                  k, k_c, t, wrote, wrote_c >>

Next == Setup \/ Step \/ Return

Spec == Init /\ [][Next]_vars

SpecAny == InitAny /\ [][Next]_vars

----------------------------------------------------------------------------
\* logseries_distribution (lines 121-154): one call, theta = theta / ThetaDen

\* (the closed interval)
ThetaInClosedUnit(th) == 0 <= th /\ th <= ThetaDen

\* line 140: 0 < theta < 1
ThetaInUnit(th) == 0 < th /\ th < ThetaDen

RECURSIVE Factorial(_)
Factorial(n) == IF n = 0 THEN 1 ELSE n * Factorial(n - 1)

\* line 147 for one k, up to the factor -1 / log(1 - theta) that line 150
\* divides out again: theta^k / k, scaled by ThetaDen^m * m! to an integer
Weight(th, m, kk) == Pow(th, kk) * Pow(ThetaDen, m - kk) * (Factorial(m) \div kk)

RECURSIVE WeightSum(_, _, _)
WeightSum(th, m, n) == IF n = 0 THEN 0 ELSE Weight(th, m, n) + WeightSum(th, m, n - 1)

\* lines 144-150: the normalised table over ks = 1..max_integer.  For theta
\* at or beyond 0 or 1 the logarithm or the sum is 0, infinite or undefined,
\* and the table holds nan.
NaN == << 0, 0 >>

Pmf(th, m) ==
  [kk \in 1..m |-> IF 0 < th /\ th < ThetaDen
                   THEN Ratio(Weight(th, m, kk), WeightSum(th, m, m))
                   ELSE NaN]

InitLogseries ==
  /\ theta \in (0 - ThetaDen)..(2 * ThetaDen)
  /\ max_integer \in 1..MaxInteger
  /\ dist = NoDist
  /\ S = 1
  /\ J = 1
  /\ T = 1
  /\ nu = 0
  /\ num_log_steps = 1
  /\ num_log_steps_count = 1
  /\ IC = "None"
  /\ opinion_counts = "None"
  /\ heap = Heap(Empty, Empty)
  /\ Entry

\* lines 140-154
LogseriesDistribution ==
  /\ dist.kind = "none"
  /\ dist' = IF ~ThetaInUnit(theta)
             THEN [kind |-> "ValueError", pmf |-> Empty]
             ELSE [kind |-> "rv_discrete", pmf |-> Pmf(theta, max_integer)]
  /\ UNCHANGED << theta, max_integer, args, IC, opinion_counts, heap, total_time,
                  opinions, log_steps, log_steps_count, richness,
                  opinion_counts_store, time, time_c, k, k_c, t, pc, ret,
                  wrote, wrote_c >>

SpecLogseries == InitLogseries /\ [][LogseriesDistribution]_vars

----------------------------------------------------------------------------
\* Properties

Range(a) == { a[x] : x \in DOMAIN a }

Running == pc \in { "loop", "done" }

Returned == pc = "done"

\* the initial Population State: the array IC names once line 54 has run
InitialPopulation == heap["IC"]

Population == heap[opinions]

\* opinion_counts was None, or was the tally of the initial condition
CountsAgree ==
  \/ heap["argCounts"] = Empty
  \/ heap["argCounts"] = CallerCounts(InitialPopulation, S)

\* nu in [0, 1], and J labels in [0, S) as the initial condition
DocumentedCall ==
  /\ nu \in 0..NuDen
  /\ ArrLen(InitialPopulation) = J
  /\ LabelsIndexable(InitialPopulation, S)

\* C1: with opinion_counts absent or equal to the tally of the initial
\* condition, every abundance slot written so far (slot 0 and one per
\* abundance checkpoint) holds S counts, none negative, that sum to J, and the
\* table that is returned is that table.
C1_RecordedCountsSumToJ ==
  (Running /\ CountsAgree) =>
    /\ \A c \in wrote_c :
         /\ DOMAIN opinion_counts_store[c] = 0..(S - 1)
         /\ \A o \in 0..(S - 1) : opinion_counts_store[c][o] >= 0
         /\ Sum(opinion_counts_store[c], S) = J
    /\ Returned => ret.store = opinion_counts_store

\* C1's case: a run that wrote two abundance checkpoints with different tallies
C1_Witness ==
  /\ Returned
  /\ wrote_c = { 0, 1, 2 }
  /\ opinion_counts_store[0] # opinion_counts_store[1]
  /\ opinion_counts_store[1] # opinion_counts_store[2]

\* C2: with nu = 0, after the update of a step t that is an entry of the
\* richness schedule and leaves one distinct label, the run has returned at t
\* with richness 1 and time t/J in its last slot.
C2_StopsAtEveryEntry ==
  (Running /\ nu = 0 /\ t \in Range(log_steps) /\ Distinct(Population) = 1) =>
    /\ Returned
    /\ ret.kind = "early"
    /\ Last(ret.richness) = 1
    /\ Last(ret.time) = Ratio(t, J)

\* C3: on the early return the richness series and its times have k+1 entries,
\* and the abundance table has as many columns as abundance-times has entries,
\* each a slot that was written.
C3_EarlyReturnTruncated ==
  (Returned /\ ret.kind = "early") =>
    /\ ArrLen(ret.richness) = k + 1
    /\ ArrLen(ret.time) = k + 1
    /\ ArrLen(ret.store) = ArrLen(ret.time_c)
    /\ DOMAIN ret.store \subseteq wrote_c

\* C4: a run returns early only with nu = 0 at a richness-schedule entry that
\* leaves one distinct label; any other run returns after exactly T*J
\* iterations; no run goes beyond T*J iterations or raises.
C4_EarlyOnlyOnConsensus ==
  /\ t <= T * J
  /\ pc # "error"
  /\ (Returned /\ ret.kind = "early") =>
       /\ nu = 0
       /\ t \in Range(log_steps)
       /\ Distinct(Population) = 1
  /\ (Returned /\ ret.kind # "early") => (ret.kind = "full" /\ t = T * J)
  /\ (pc = "loop" /\ t < T * J) => ret.kind = "none"

\* C4's case: consensus with nu = 0 that no checkpoint saw, so that all of
\* several generations ran
C4_Witness ==
  /\ Returned
  /\ ret.kind = "full"
  /\ nu = 0
  /\ T > 1
  /\ ArrLen(log_steps) > 1
  /\ Distinct(Population) = 1
  /\ t = T * J

\* C5: the richness returned at slot 0 is the number of distinct labels of the
\* initial condition, in every call with documented parameters.
C5_InitialRichness ==
  (Returned /\ DocumentedCall) => ret.richness[0] = Distinct(InitialPopulation)

\* C6: with num_log_steps = 1 the schedule is {J} and the returned richness
\* series and its times have length 2.
C6_OneLogStep ==
  (Returned /\ num_log_steps = 1) =>
    /\ log_steps = AsArray(<< J >>)
    /\ ArrLen(ret.richness) = 2
    /\ ArrLen(ret.time) = 2

\* C7: with nu = 0 and S = 1 every returned richness is 1 and the run returns
\* at the first richness checkpoint, without raising.
C7_TrivialConsensus ==
  (nu = 0 /\ S = 1) =>
    /\ pc # "error"
    /\ Returned =>
         /\ \A x \in DOMAIN ret.richness : ret.richness[x] = 1
         /\ t = log_steps[0]

\* the call's arguments are outside the documented ranges
RejectedCall ==
  \/ nu \notin 0..NuDen
  \/ IF pc = "call"
     THEN IC # "None" /\ (ArrLen(heap[IC]) # J \/ ~LabelsIndexable(heap[IC], S))
     ELSE ArrLen(InitialPopulation) # J \/ ~LabelsIndexable(InitialPopulation, S)

\* C8: a call with nu outside [0,1], an initial condition of another length
\* than J or one holding a label outside [0,S) runs no iteration, neither a
\* whole one nor one that raises part-way, and returns nothing.
C8_RejectedAtEntry ==
  RejectedCall => (t = 0 /\ pc # "done")

\* C9: no step of a run changes the caller's initial condition or the
\* caller's opinion_counts.
C9_CallerArraysKept ==
  [][ /\ heap'["argIC"] = heap["argIC"]
      /\ heap'["argCounts"] = heap["argCounts"] ]_vars

\* C9's case: a returned run, given both arrays, whose population and whose
\* re-tallied counts differ from them
C9_Witness ==
  /\ Returned
  /\ heap["argIC"] # Empty
  /\ heap["argCounts"] # Empty
  /\ Population # heap["argIC"]
  /\ 1 \in wrote_c
  /\ heap[opinion_counts] # heap["argCounts"]

StrictlyIncreasing(a) == \A x, y \in DOMAIN a : x < y => a[x] < a[y]

\* what C11 says of one schedule built for n requested points
ScheduleShape(steps, n) ==
  /\ StrictlyIncreasing(steps)
  /\ \A x \in DOMAIN steps : J <= steps[x] /\ steps[x] <= J * T
  /\ ArrLen(steps) >= 1
  /\ ArrLen(steps) <= n
  /\ T = 1 => steps = AsArray(<< J >>)

\* C11: the richness schedule and the abundance schedule are each strictly
\* increasing, within [J, J*T], no longer than the number of points asked
\* for, and the single point J when T = 1.
C11_ScheduleShape ==
  Running =>
    /\ ScheduleShape(log_steps, num_log_steps)
    /\ ScheduleShape(log_steps_count, num_log_steps_count)

\* C11's case: three points asked for over more than one generation, two of
\* which round to the same step, next to a schedule that keeps all three
C11_Witness ==
  /\ Running
  /\ T > 1
  /\ num_log_steps = 3
  /\ ArrLen(log_steps) = 2
  /\ num_log_steps_count = 2
  /\ ArrLen(log_steps_count) = 2

\* C12: logseries_distribution raises its ValueError, with no table built,
\* exactly when theta is not strictly between 0 and 1.
C12_ThetaValidated ==
  dist.kind # "none" =>
    /\ (theta <= 0 \/ theta >= ThetaDen) <=> dist.kind = "ValueError"
    /\ dist.kind = "ValueError" => dist.pmf = Empty
    /\ dist.kind # "ValueError" =>
         (dist.kind = "rv_discrete" /\ DOMAIN dist.pmf = 1..max_integer)

\* C12's case: the call has raised for theta = 1
C12_Witness ==
  /\ theta = ThetaDen
  /\ max_integer > 1
  /\ dist.kind = "ValueError"

\* the histogram of a population over the labels 0..S-1
Histogram(pop) == [o \in 0..(S - 1) |-> Cardinality({ x \in DOMAIN pop : pop[x] = o })]

\* C13: every entry log_steps[x] that the run has reached has slot x+1 of
\* the richness output, holding the time log_steps[x]/J and, right after that
\* step, the number of distinct labels of the population; the returned series
\* holds the same slots.
C13_RichnessAtEveryEntry ==
  Running =>
    \A x \in DOMAIN log_steps :
      log_steps[x] <= t =>
        /\ x + 1 \in DOMAIN richness
        /\ x + 1 \in wrote
        /\ time[x + 1] = Ratio(log_steps[x], J)
        /\ log_steps[x] = t => richness[x + 1] = Distinct(Population)
        /\ Returned =>
             /\ x + 1 \in DOMAIN ret.richness
             /\ ret.richness[x + 1] = richness[x + 1]
             /\ ret.time[x + 1] = Ratio(log_steps[x], J)

\* C14: every entry log_steps_count[x] that the run has reached without
\* returning early has column x+1 of the abundance table, holding right after
\* that step the tally of the population, with log_steps_count[x]/J as its
\* abundance-time.
C14_CountsAtEveryEntry ==
  (Running /\ ret.kind # "early") =>
    \A x \in DOMAIN log_steps_count :
      log_steps_count[x] <= t =>
        /\ x + 1 \in wrote_c
        /\ time_c[x + 1] = Ratio(log_steps_count[x], J)
        /\ log_steps_count[x] = t => opinion_counts_store[x + 1] = Histogram(Population)

\* C15: the richness array loses at most its one trailing slot and no written
\* slot; the returned richness series and its times have the same slots, all
\* of them written, and every returned richness is at least 1.
C15_RichnessOutputWritten ==
  /\ Running =>
       /\ wrote \subseteq DOMAIN richness
       /\ DOMAIN time = DOMAIN richness
       /\ ArrLen(richness) \in { ArrLen(log_steps), ArrLen(log_steps) + 1 }
  /\ Returned =>
       /\ DOMAIN ret.richness = DOMAIN ret.time
       /\ DOMAIN ret.richness = wrote
       /\ \A x \in DOMAIN ret.richness : ret.richness[x] >= 1

\* C15's case: a full run that went on for two iterations or more after the
\* trailing slot was dropped
C15_Witness ==
  /\ Returned
  /\ ret.kind = "full"
  /\ ArrLen(log_steps) = 3
  /\ ArrLen(ret.richness) = 3
  /\ t >= log_steps[1] + 2

\* C16: with nu = 0, an iteration that starts with every individual holding
\* the same label leaves the population as it is.
C16_ConsensusAbsorbing ==
  [][ (pc = "loop" /\ nu = 0 /\ Distinct(Population) = 1) =>
        heap'[opinions'] = Population ]_vars

\* C16's case: with nu = 0 an abundance checkpoint saw consensus that had not
\* been there at the start, and the run went on to its last step
C16_Witness ==
  /\ Returned
  /\ ret.kind = "full"
  /\ nu = 0
  /\ 1 \in wrote_c
  /\ Positive(opinion_counts_store[0]) = 2
  /\ Positive(opinion_counts_store[1]) = 1
  /\ t > log_steps_count[0]

\* C17: an iteration changes the label of at most one individual; every label
\* of the population is in [0, S) after every step; with nu = 0 (the draw is
\* never below nu) the new label is one that was held before the step.
C17_OneLabelPerStep ==
  [][ /\ pc' \in { "loop", "done" } => LabelsIndexable(heap'[opinions'], S)
      /\ pc = "loop" =>
           /\ DOMAIN heap'[opinions'] = DOMAIN Population
           /\ Cardinality({ x \in DOMAIN Population :
                              heap'[opinions'][x] # Population[x] }) <= 1
           /\ nu = 0 => Labels(heap'[opinions']) \subseteq Labels(Population) ]_vars

\* C17's case: speciation has put a label into the population that the
\* initial condition did not hold
C17_Witness ==
  /\ pc = "loop"
  /\ nu > 0
  /\ t = 1
  /\ ~(Labels(Population) \subseteq Labels(InitialPopulation))

\* a/b < c/d for ratios with positive denominators
RatioLess(p, q) == p[1] * q[2] < q[1] * p[2]

\* C18: after a full run every returned abundance column and abundance-time
\* is a slot that was written, and the abundance-times increase strictly.
C18_AbundanceOutputWritten ==
  (Returned /\ ret.kind = "full") =>
    /\ DOMAIN ret.store \subseteq wrote_c
    /\ DOMAIN ret.time_c \subseteq wrote_c
    /\ \A x, y \in DOMAIN ret.time_c : x < y => RatioLess(ret.time_c[x], ret.time_c[y])

\* C19: with nu = 0 the labels present are labels of the initial condition,
\* the richness written at successive slots never increases, and a label
\* whose count is 0 in one abundance column has count 0 in every later one,
\* in the arrays of the run and in what is returned.
C19_NoNewLabels ==
  (Running /\ nu = 0) =>
    /\ Labels(Population) \subseteq Labels(InitialPopulation)
    /\ \A x, y \in wrote : x < y => richness[y] <= richness[x]
    /\ \A x, y \in wrote_c : \A o \in 0..(S - 1) :
         (x < y /\ opinion_counts_store[x][o] = 0) => opinion_counts_store[y][o] = 0
    /\ Returned =>
         /\ \A x, y \in DOMAIN ret.richness : x < y => ret.richness[y] <= ret.richness[x]
         /\ \A x, y \in DOMAIN ret.store : \A o \in 0..(S - 1) :
              (x < y /\ ret.store[x][o] = 0) => ret.store[y][o] = 0

\* C19's case: with nu = 0 a label counted at one abundance checkpoint is
\* gone at the next
C19_Witness ==
  /\ Returned
  /\ nu = 0
  /\ 2 \in wrote_c
  /\ ret.richness[0] = 2
  /\ \E o \in 0..(S - 1) :
       opinion_counts_store[1][o] > 0 /\ opinion_counts_store[2][o] = 0

====
